---- MODULE Spec2Model ----
(***************************************************************************)
(* Model of EquipmentOptimizationModel (src/docs/preparation.py): the      *)
(* equipment catalog, calculate_annual_cost, calculate_efficiency_score,   *)
(* optimize_equipment_selection with its linprog call,                     *)
(* get_fallback_solution and generate_cost_breakdown.                      *)
(*                                                                         *)
(* Numbers.  Every amount of money in the catalog is an integer and every  *)
(* acquisition_cost is a multiple of its lifespan (AmortisationExact), so  *)
(* the float arithmetic of the cost formulas is exact and is modelled in   *)
(* the integers.  efficiency_gain and response_time_reduction are kept in  *)
(* hundredths (0.85 is 85).  A component of the solver's solution vector   *)
(* is a float near an integer; it is kept in fixed point, Scale units to   *)
(* 1.0.                                                                    *)
(*                                                                         *)
(* A dict is a sequence of <<key, value>> pairs in insertion order with    *)
(* distinct keys.                                                          *)
(***************************************************************************)
EXTENDS Integers, Sequences, FiniteSets, TLC

VARIABLES pc, call, ret, prev

vars == <<pc, call, ret, prev>>

-----------------------------------------------------------------------------
(* Bounds of the model *)

\* budgets are taken within BudgetSlack of each threshold of the code
BudgetSlack == 1
\* longest equipment_config handed to the analyzer and the scorer
MaxLen == 2
\* quantities of such a config range over -1 .. MaxQty
MaxQty == 2
\* explicit years arguments range over 0 .. MaxYears
MaxYears == 3
\* explicit usage_hours arguments range over 0 .. MaxHours
MaxHours == 2

-----------------------------------------------------------------------------
(* The catalog, __init__ *)

control_equipment ==
  [ backup_drone |->
      [ acquisition_cost |-> 30000, maintenance_cost |-> 4500,
        readiness_cost |-> 2000, usage_cost_per_hour |-> 500,
        efficiency_gain |-> 85, response_time_reduction |-> 70,
        lifespan |-> 3, quantity_min |-> 1, quantity_max |-> 5 ],
    thermal_camera |->
      [ acquisition_cost |-> 50000, maintenance_cost |-> 2500,
        readiness_cost |-> 1000, usage_cost_per_hour |-> 100,
        efficiency_gain |-> 65, response_time_reduction |-> 30,
        lifespan |-> 5, quantity_min |-> 0, quantity_max |-> 3 ],
    gps_tracker |->
      [ acquisition_cost |-> 2000, maintenance_cost |-> 300,
        readiness_cost |-> 200, usage_cost_per_hour |-> 50,
        efficiency_gain |-> 75, response_time_reduction |-> 60,
        lifespan |-> 2, quantity_min |-> 2, quantity_max |-> 10 ],
    satellite_comm |->
      [ acquisition_cost |-> 15000, maintenance_cost |-> 3000,
        readiness_cost |-> 1500, usage_cost_per_hour |-> 200,
        efficiency_gain |-> 55, response_time_reduction |-> 40,
        lifespan |-> 4, quantity_min |-> 1, quantity_max |-> 3 ] ]

rescue_equipment ==
  [ rf_detector |->
      [ acquisition_cost |-> 20000, maintenance_cost |-> 1000,
        readiness_cost |-> 800, usage_cost_per_hour |-> 150,
        efficiency_gain |-> 60, response_time_reduction |-> 50,
        lifespan |-> 4, quantity_min |-> 1, quantity_max |-> 4 ],
    portable_gps |->
      [ acquisition_cost |-> 3000, maintenance_cost |-> 300,
        readiness_cost |-> 200, usage_cost_per_hour |-> 50,
        efficiency_gain |-> 45, response_time_reduction |-> 35,
        lifespan |-> 3, quantity_min |-> 3, quantity_max |-> 8 ],
    offroad_vehicle |->
      [ acquisition_cost |-> 300000, maintenance_cost |-> 30000,
        readiness_cost |-> 10000, usage_cost_per_hour |-> 500,
        efficiency_gain |-> 70, response_time_reduction |-> 65,
        lifespan |-> 8, quantity_min |-> 0, quantity_max |-> 2 ] ]

\* {**self.control_equipment, **self.rescue_equipment}
all_equipment == control_equipment @@ rescue_equipment

\* list(all_equipment.keys()): insertion order, control group first
equipment_list ==
  << "backup_drone", "thermal_camera", "gps_tracker", "satellite_comm",
     "rf_detector", "portable_gps", "offroad_vehicle" >>

CatalogKeys == DOMAIN all_equipment

\* acquisition_cost / lifespan is a whole number for every catalog item
AmortisationExact ==
  \A k \in CatalogKeys :
    all_equipment[k].acquisition_cost % all_equipment[k].lifespan = 0

\* the usage_hours=100 default of calculate_annual_cost and
\* calculate_efficiency_score
DefaultUsageHours == 100

\* the years=5 default of generate_cost_breakdown
DefaultYears == 5

-----------------------------------------------------------------------------
(* Dicts *)

Keys(d) == { d[i][1] : i \in 1..Len(d) }

HasKey(d, k) == \E i \in 1..Len(d) : d[i][1] = k

\* d[k] for a key that is present
Lookup(d, k) == d[CHOOSE i \in 1..Len(d) : d[i][1] = k][2]

\* d.get(k, 0): an item absent from an assignment counts as quantity 0
Quantity(d, k) == IF HasKey(d, k) THEN Lookup(d, k) ELSE 0

IsDict(d) == \A i, j \in 1..Len(d) : d[i][1] = d[j][1] => i = j

RECURSIVE SumSeq(_)
SumSeq(s) == IF s = << >> THEN 0 ELSE Head(s) + SumSeq(Tail(s))

-----------------------------------------------------------------------------
(* calculate_annual_cost *)

\* the lookup of lines 104-107: a key of neither group raises KeyError
EquipmentKnown(equipment_type) ==
  equipment_type \in DOMAIN control_equipment
    \/ equipment_type \in DOMAIN rescue_equipment

EquipmentOf(equipment_type) ==
  IF equipment_type \in DOMAIN control_equipment
    THEN control_equipment[equipment_type]
    ELSE rescue_equipment[equipment_type]

\* calculate_annual_cost with the usage cost left out of the scaling by
\* quantity in the total
calculate_annual_cost_usage_unscaled(equipment_type, quantity, usage_hours) ==
  IF ~EquipmentKnown(equipment_type)
    THEN [ status |-> "KeyError" ]
    ELSE
      LET eq == EquipmentOf(equipment_type)
          annual_acquisition == eq.acquisition_cost \div eq.lifespan
          annual_usage == eq.usage_cost_per_hour * usage_hours
      IN  [ status |-> "ok",
            acquisition |-> annual_acquisition * quantity,
            maintenance |-> eq.maintenance_cost * quantity,
            readiness |-> eq.readiness_cost * quantity,
            usage |-> annual_usage * quantity,
            total |-> (annual_acquisition + eq.maintenance_cost
                         + eq.readiness_cost) * quantity + annual_usage ]

calculate_annual_cost(equipment_type, quantity, usage_hours) ==
  IF ~EquipmentKnown(equipment_type)
    THEN [ status |-> "KeyError" ]
    ELSE
      LET eq == EquipmentOf(equipment_type)
          annual_acquisition == eq.acquisition_cost \div eq.lifespan
          annual_maintenance == eq.maintenance_cost
          annual_readiness == eq.readiness_cost
          annual_usage == eq.usage_cost_per_hour * usage_hours
          total_annual ==
            (annual_acquisition + annual_maintenance
               + annual_readiness + annual_usage) * quantity
      IN  [ status |-> "ok",
            acquisition |-> annual_acquisition * quantity,
            maintenance |-> annual_maintenance * quantity,
            readiness |-> annual_readiness * quantity,
            usage |-> annual_usage * quantity,
            total |-> total_annual ]

\* self.calculate_annual_cost(eq, 1)['total'], the per-unit annual cost of
\* a catalog item at the default usage hours
UnitCost(k) == calculate_annual_cost(k, 1, DefaultUsageHours).total

-----------------------------------------------------------------------------
(* calculate_efficiency_score *)

\* the for loop of lines 130-137 from entry i on, with the two running
\* sums; scores are in hundredths, overall_score in thousandths
\* (hundredths times the weights 0.6 and 0.4 in tenths)
RECURSIVE EfficiencyLoop(_, _, _, _)
EfficiencyLoop(equipment_config, i, total_efficiency, total_response_reduction) ==
  IF i > Len(equipment_config)
    THEN [ status |-> "ok",
           efficiency_score |-> total_efficiency,
           response_improvement |-> total_response_reduction,
           overall_score |->
             total_efficiency * 6 + total_response_reduction * 4 ]
    ELSE
      LET eq_type == equipment_config[i][1]
          quantity == equipment_config[i][2]
      IN  IF ~EquipmentKnown(eq_type)
            THEN [ status |-> "KeyError" ]
            ELSE
              LET eq == EquipmentOf(eq_type)
              IN  EfficiencyLoop(
                    equipment_config, i + 1,
                    total_efficiency + eq.efficiency_gain * quantity,
                    total_response_reduction
                      + eq.response_time_reduction * quantity)

\* calculate_efficiency_score looking up only the entries with a
\* quantity above 0
RECURSIVE EfficiencyLoopPositiveOnly(_, _, _, _)
EfficiencyLoopPositiveOnly(equipment_config, i, total_efficiency,
                           total_response_reduction) ==
  IF i > Len(equipment_config)
    THEN [ status |-> "ok",
           efficiency_score |-> total_efficiency,
           response_improvement |-> total_response_reduction,
           overall_score |->
             total_efficiency * 6 + total_response_reduction * 4 ]
    ELSE
      LET eq_type == equipment_config[i][1]
          quantity == equipment_config[i][2]
      IN  IF quantity <= 0
            THEN EfficiencyLoopPositiveOnly(
                   equipment_config, i + 1, total_efficiency,
                   total_response_reduction)
            ELSE IF ~EquipmentKnown(eq_type)
              THEN [ status |-> "KeyError" ]
              ELSE
                LET eq == EquipmentOf(eq_type)
                IN  EfficiencyLoopPositiveOnly(
                      equipment_config, i + 1,
                      total_efficiency + eq.efficiency_gain * quantity,
                      total_response_reduction
                        + eq.response_time_reduction * quantity)

calculate_efficiency_score_positive_only(equipment_config) ==
  EfficiencyLoopPositiveOnly(equipment_config, 1, 0, 0)

calculate_efficiency_score(equipment_config) ==
  EfficiencyLoop(equipment_config, 1, 0, 0)

-----------------------------------------------------------------------------
(* get_fallback_solution *)

\* get_fallback_solution with the thresholds themselves on the lower tier
get_fallback_solution_inclusive(budget) ==
  IF budget <= 100000
    THEN << <<"backup_drone", 2>>, <<"gps_tracker", 5>>,
            <<"portable_gps", 4>> >>
    ELSE IF budget <= 300000
      THEN << <<"backup_drone", 3>>, <<"gps_tracker", 8>>,
              <<"thermal_camera", 1>>, <<"satellite_comm", 1>>,
              <<"rf_detector", 2>>, <<"portable_gps", 6>> >>
      ELSE << <<"backup_drone", 4>>, <<"gps_tracker", 10>>,
              <<"thermal_camera", 2>>, <<"satellite_comm", 2>>,
              <<"rf_detector", 3>>, <<"portable_gps", 8>>,
              <<"offroad_vehicle", 1>> >>

get_fallback_solution(budget) ==
  IF budget < 100000
    THEN << <<"backup_drone", 2>>, <<"gps_tracker", 5>>,
            <<"portable_gps", 4>> >>
    ELSE IF budget < 300000
      THEN << <<"backup_drone", 3>>, <<"gps_tracker", 8>>,
              <<"thermal_camera", 1>>, <<"satellite_comm", 1>>,
              <<"rf_detector", 2>>, <<"portable_gps", 6>> >>
      ELSE << <<"backup_drone", 4>>, <<"gps_tracker", 10>>,
              <<"thermal_camera", 2>>, <<"satellite_comm", 2>>,
              <<"rf_detector", 3>>, <<"portable_gps", 8>>,
              <<"offroad_vehicle", 1>> >>

-----------------------------------------------------------------------------
(* generate_cost_breakdown *)

\* the for loop of lines 202-205 from entry i on, with cost_data and the
\* running total
RECURSIVE BreakdownLoop(_, _, _, _)
BreakdownLoop(equipment_config, i, cost_data, total_annual_cost) ==
  IF i > Len(equipment_config)
    THEN [ status |-> "ok", cost_data |-> cost_data,
           total_annual_cost |-> total_annual_cost ]
    ELSE
      LET eq_type == equipment_config[i][1]
          quantity == equipment_config[i][2]
      IN  IF quantity > 0
            THEN
              LET cost ==
                    calculate_annual_cost(eq_type, quantity, DefaultUsageHours)
              IN  IF cost.status # "ok"
                    THEN [ status |-> cost.status ]
                    ELSE BreakdownLoop(
                           equipment_config, i + 1,
                           Append(cost_data, <<eq_type, cost>>),
                           total_annual_cost + cost.total)
            ELSE BreakdownLoop(
                   equipment_config, i + 1, cost_data, total_annual_cost)

\* generate_cost_breakdown projecting over five years whatever years is
generate_cost_breakdown_five_years(equipment_config, years) ==
  LET loop == BreakdownLoop(equipment_config, 1, << >>, 0)
  IN  IF loop.status # "ok"
        THEN [ status |-> loop.status ]
        ELSE
          LET efficiency_metrics == calculate_efficiency_score(equipment_config)
          IN  IF efficiency_metrics.status # "ok"
                THEN [ status |-> efficiency_metrics.status ]
                ELSE [ status |-> "ok",
                       annual_breakdown |-> loop.cost_data,
                       total_annual_cost |-> loop.total_annual_cost,
                       total_5year_cost |-> loop.total_annual_cost * 5,
                       efficiency_metrics |-> efficiency_metrics ]

generate_cost_breakdown(equipment_config, years) ==
  LET loop == BreakdownLoop(equipment_config, 1, << >>, 0)
  IN  IF loop.status # "ok"
        THEN [ status |-> loop.status ]
        ELSE
          LET total_cost_5years == loop.total_annual_cost * years
              efficiency_metrics == calculate_efficiency_score(equipment_config)
          IN  IF efficiency_metrics.status # "ok"
                THEN [ status |-> efficiency_metrics.status ]
                ELSE [ status |-> "ok",
                       annual_breakdown |-> loop.cost_data,
                       total_annual_cost |-> loop.total_annual_cost,
                       total_5year_cost |-> total_cost_5years,
                       efficiency_metrics |-> efficiency_metrics ]

-----------------------------------------------------------------------------
(* linprog(c, A_ub, b_ub, bounds, method='highs', integrality=1) *)

\* fixed-point units to 1.0 in a component of result.x
Scale == 10^6

\* what the solver may leave on a component of an integer solution: the
\* value is off by at most one unit either way
Noise == { -1, 0, 1 }

N == Len(equipment_list)

\* a[i] * q[i] + ... + a[N] * q[N]
RECURSIVE DotFrom(_, _, _)
DotFrom(a, q, i) ==
  IF i > N THEN 0 ELSE a[i] * q[i] + DotFrom(a, q, i + 1)

Dot(a, q) == DotFrom(a, q, 1)

\* the integer points within the variable bounds
Box(bounds) ==
  (bounds[1][1]..bounds[1][2]) \X (bounds[2][1]..bounds[2][2])
    \X (bounds[3][1]..bounds[3][2]) \X (bounds[4][1]..bounds[4][2])
    \X (bounds[5][1]..bounds[5][2]) \X (bounds[6][1]..bounds[6][2])
    \X (bounds[7][1]..bounds[7][2])

MinOf(S) ==
  LET vals == S
  IN  CHOOSE v \in vals : \A w \in vals : v <= w

\* the vectors the solver may return for the integer point q
Noisy(q) ==
  { [ i \in 1..N |-> q[i] * Scale + d[i] ] : d \in [ 1..N -> Noise ] }

\* scipy's solver is not part of the repository; this is its contract.
\* the results linprog may return: failure when no integer point within
\* the bounds meets A_ub x <= b_ub, otherwise success with a minimiser of
\* c x, each component within one unit of its integer
linprog(c, A_ub, b_ub, bounds) ==
  LET feasible == { q \in Box(bounds) : Dot(A_ub, q) <= b_ub }
  IN  IF feasible = {}
        THEN { [ success |-> FALSE ] }
        ELSE
          LET best == MinOf({ Dot(c, q) : q \in feasible })
              optimal == { q \in feasible : Dot(c, q) = best }
          IN  UNION { { [ success |-> TRUE, x |-> x ] : x \in Noisy(q) } :
                      q \in optimal }

-----------------------------------------------------------------------------
(* optimize_equipment_selection *)

Modes == { "cost", "efficiency", "balanced" }

\* the objective coefficients of lines 152-161; efficiency_gain * 10000
\* is the gain in hundredths times 100, efficiency_gain * 5000 times 50
CostCoefficients == [ i \in 1..N |-> UnitCost(equipment_list[i]) ]

EfficiencyCoefficients ==
  [ i \in 1..N |-> -(all_equipment[equipment_list[i]].efficiency_gain * 100) ]

BalancedCoefficients ==
  [ i \in 1..N |->
      UnitCost(equipment_list[i])
        - all_equipment[equipment_list[i]].efficiency_gain * 50 ]

Objective(priority) ==
  IF priority = "cost" THEN CostCoefficients
  ELSE IF priority = "efficiency" THEN EfficiencyCoefficients
  ELSE BalancedCoefficients

ConstraintRow == [ i \in 1..N |-> UnitCost(equipment_list[i]) ]

VariableBounds ==
  [ i \in 1..N |->
      << all_equipment[equipment_list[i]].quantity_min,
         all_equipment[equipment_list[i]].quantity_max >> ]

\* Python's round() of a float held in fixed point: to the nearest
\* integer, a tie to the even one
Round(x) ==
  LET q == x \div Scale
      r == x % Scale
  IN  IF 2 * r < Scale THEN q
      ELSE IF 2 * r > Scale THEN q + 1
      ELSE IF q % 2 = 0 THEN q ELSE q + 1

\* the dict comprehension of lines 178-179 from index i on
RECURSIVE Quantities(_, _)
Quantities(x, i) ==
  IF i > N THEN << >>
  ELSE IF x[i] > 0
    THEN << <<equipment_list[i], Round(x[i])>> >> \o Quantities(x, i + 1)
    ELSE Quantities(x, i + 1)

\* lines 177-182 with an empty assignment in place of the fallback
SelectionNoFallback(result, budget_constraint) ==
  IF result.success THEN Quantities(result.x, 1) ELSE << >>

\* lines 177-182 on a result of the solver
Selection(result, budget_constraint) ==
  IF result.success
    THEN Quantities(result.x, 1)
    ELSE get_fallback_solution(budget_constraint)

\* the cheapest assignment within the bounds costs this much: the budget
\* constraint is feasible from here on
MinFeasibleBudget ==
  SumSeq([ i \in 1..N |-> ConstraintRow[i] * VariableBounds[i][1] ])

Budgets ==
  { 80000, 200000, 500000 }
    \cup { t + d : t \in { 100000, 300000, MinFeasibleBudget },
                   d \in -BudgetSlack..BudgetSlack }

\* result = linprog(c, A_ub=A_ub, b_ub=b_ub, bounds=bounds, ...) of lines
\* 163-175, for every budget and priority of the model
SolverResults ==
  [ budget_constraint \in Budgets, priority \in Modes |->
      linprog(Objective(priority), ConstraintRow, budget_constraint,
              VariableBounds) ]

-----------------------------------------------------------------------------
(* The calls and their arguments *)

\* keys of the configs handed to the analyzer and the scorer: items of
\* either group, one of them with quantity_min 0, and a key of neither
ConfigKeys == { "backup_drone", "gps_tracker", "offroad_vehicle", "unknown_item" }

ConfigEntries == ConfigKeys \X (-1..MaxQty)

Configs ==
  { d \in UNION { [ 1..n -> ConfigEntries ] : n \in 0..MaxLen } : IsDict(d) }

\* None stands for an argument left to its default
None == [ given |-> FALSE ]

Given(v) == [ given |-> TRUE, value |-> v ]

YearsArgs == { None } \cup { Given(y) : y \in 0..MaxYears }

HoursArgs == { None } \cup { Given(h) : h \in 0..MaxHours }

ArgOr(arg, default) == IF arg.given THEN arg.value ELSE default

CostKeys == CatalogKeys \cup { "unknown_item" }

CostQuantities == -MaxQty..(2 * MaxQty)

NoCall == [ op |-> "none" ]
NoRet == [ status |-> "none" ]

-----------------------------------------------------------------------------
(* The state machine: a caller makes one call at a time *)

Init ==
  /\ pc = "idle"
  /\ call = NoCall
  /\ ret = NoRet
  /\ prev = NoCall

\* optimize_equipment_selection(budget_constraint, priority).  prev keeps
\* the preceding call while it and this one both took the fallback path.
CallOptimize ==
  /\ pc = "idle"
  /\ \E budget_constraint \in Budgets, priority \in Modes :
       \E result \in SolverResults[budget_constraint, priority] :
         /\ call' = [ op |-> "optimize_equipment_selection",
                      budget_constraint |-> budget_constraint,
                      priority |-> priority ]
         /\ ret' = [ status |-> "ok", success |-> result.success,
                     x |-> IF result.success THEN result.x ELSE << >>,
                     value |-> Selection(result, budget_constraint) ]
         /\ prev' = IF result.success THEN NoCall ELSE prev
  /\ pc' = "returned"

\* get_fallback_solution(budget)
CallFallback ==
  /\ pc = "idle"
  /\ \E budget \in Budgets :
       /\ call' = [ op |-> "get_fallback_solution", budget |-> budget ]
       /\ ret' = [ status |-> "ok", value |-> get_fallback_solution(budget) ]
  /\ prev' = NoCall
  /\ pc' = "returned"

\* calculate_annual_cost(equipment_type, quantity[, usage_hours])
CallAnnualCost ==
  /\ pc = "idle"
  /\ \E equipment_type \in CostKeys, quantity \in CostQuantities,
        usage_hours \in HoursArgs :
       /\ call' = [ op |-> "calculate_annual_cost",
                    equipment_type |-> equipment_type,
                    quantity |-> quantity, usage_hours |-> usage_hours ]
       /\ ret' = calculate_annual_cost(
                   equipment_type, quantity,
                   ArgOr(usage_hours, DefaultUsageHours))
  /\ prev' = NoCall
  /\ pc' = "returned"

\* calculate_efficiency_score(equipment_config)
CallEfficiencyScore ==
  /\ pc = "idle"
  /\ \E equipment_config \in Configs :
       /\ call' = [ op |-> "calculate_efficiency_score",
                    equipment_config |-> equipment_config ]
       /\ ret' = calculate_efficiency_score(equipment_config)
  /\ prev' = NoCall
  /\ pc' = "returned"

\* generate_cost_breakdown(equipment_config[, years])
CallCostBreakdown ==
  /\ pc = "idle"
  /\ \E equipment_config \in Configs, years \in YearsArgs :
       /\ call' = [ op |-> "generate_cost_breakdown",
                    equipment_config |-> equipment_config, years |-> years ]
       /\ ret' = generate_cost_breakdown(
                   equipment_config, ArgOr(years, DefaultYears))
  /\ prev' = NoCall
  /\ pc' = "returned"

\* generate_cost_breakdown(optimal_config) on the assignment the
\* optimizer has just returned, as the driver does
AnalyzeSelection ==
  /\ pc = "returned"
  /\ call.op = "optimize_equipment_selection"
  /\ call' = [ op |-> "generate_cost_breakdown",
               equipment_config |-> ret.value, years |-> None ]
  /\ ret' = generate_cost_breakdown(ret.value, DefaultYears)
  /\ prev' = NoCall
  /\ pc' = "returned"

\* the caller takes the result and goes on to its next call
Return ==
  /\ pc = "returned"
  /\ pc' = "idle"
  /\ prev' =
       IF call.op = "optimize_equipment_selection" /\ ~ret.success
         THEN [ op |-> call.op, budget_constraint |-> call.budget_constraint,
                priority |-> call.priority, value |-> ret.value ]
         ELSE NoCall
  /\ call' = NoCall
  /\ ret' = NoRet

Next ==
  \/ CallOptimize
  \/ CallFallback
  \/ CallAnnualCost
  \/ CallEfficiencyScore
  \/ CallCostBreakdown
  \/ AnalyzeSelection
  \/ Return

Spec == Init /\ [][Next]_vars

-----------------------------------------------------------------------------
(* The claims *)

\* a dict as a mapping, whatever the order of its entries
AsMap(d) == [ k \in Keys(d) |-> Lookup(d, k) ]

Optimized == pc = "returned" /\ call.op = "optimize_equipment_selection"

\* the sum of calculate_annual_cost(k, d[k]).total over the keys k in S
RECURSIVE TotalOver(_, _)
TotalOver(S, d) ==
  IF S = {} THEN 0
  ELSE LET k == CHOOSE e \in S : TRUE
       IN  calculate_annual_cost(k, Lookup(d, k), DefaultUsageHours).total
             + TotalOver(S \ {k}, d)

\* C1: the total annual cost of the assignment optimize_equipment_selection
\* returns, as generate_cost_breakdown reports it, never exceeds the
\* budget, on the success path and on the fallback path.
C1_CostWithinBudget ==
  Optimized =>
    generate_cost_breakdown(ret.value, DefaultYears).total_annual_cost
      <= call.budget_constraint

\* C1 on the solver-success path alone
C1_CostWithinBudgetOnSuccess ==
  Optimized /\ ret.success =>
    generate_cost_breakdown(ret.value, DefaultYears).total_annual_cost
      <= call.budget_constraint

\* C2: every catalog item's quantity in the assignment
\* optimize_equipment_selection returns lies within the item's
\* [quantity_min, quantity_max], an absent item counting as 0, on the
\* success path and on the fallback path.
C2_QuantitiesWithinBounds ==
  Optimized =>
    \A k \in CatalogKeys :
      /\ all_equipment[k].quantity_min <= Quantity(ret.value, k)
      /\ Quantity(ret.value, k) <= all_equipment[k].quantity_max

\* C2 on the solver-success path alone
C2_QuantitiesWithinBoundsOnSuccess ==
  Optimized /\ ret.success =>
    \A k \in CatalogKeys :
      /\ all_equipment[k].quantity_min <= Quantity(ret.value, k)
      /\ Quantity(ret.value, k) <= all_equipment[k].quantity_max

\* C3: when the solver reports failure, optimize_equipment_selection
\* raises nothing and returns exactly get_fallback_solution(budget), and
\* two such calls on the same budget return the same assignment whatever
\* their priorities.
C3_FallbackOnFailure ==
  Optimized /\ ~ret.success =>
    /\ ret.status = "ok"
    /\ ret.value = get_fallback_solution(call.budget_constraint)
    /\ ( prev.op = "optimize_equipment_selection"
           /\ prev.budget_constraint = call.budget_constraint
         => prev.value = ret.value )

C3_Witness ==
  /\ Optimized
  /\ ~ret.success
  /\ prev.op = "optimize_equipment_selection"
  /\ prev.budget_constraint = call.budget_constraint
  /\ prev.priority = "cost"
  /\ call.priority = "efficiency"
  /\ ret.value # << >>

SmallBundle == [ backup_drone |-> 2, gps_tracker |-> 5, portable_gps |-> 4 ]

MediumBundle ==
  [ backup_drone |-> 3, gps_tracker |-> 8, thermal_camera |-> 1,
    satellite_comm |-> 1, rf_detector |-> 2, portable_gps |-> 6 ]

LargeBundle ==
  [ backup_drone |-> 4, gps_tracker |-> 10, thermal_camera |-> 2,
    satellite_comm |-> 2, rf_detector |-> 3, portable_gps |-> 8,
    offroad_vehicle |-> 1 ]

\* C4: get_fallback_solution(budget) returns the small bundle for
\* budget < 100000, the medium bundle for 100000 <= budget < 300000 and
\* the large bundle for budget >= 300000.
C4_FallbackTiers ==
  pc = "returned" /\ call.op = "get_fallback_solution" =>
    /\ IsDict(ret.value)
    /\ AsMap(ret.value) =
         IF call.budget < 100000 THEN SmallBundle
         ELSE IF call.budget < 300000 THEN MediumBundle
         ELSE LargeBundle

C4_Witness ==
  /\ pc = "returned"
  /\ call.op = "get_fallback_solution"
  /\ call.budget = 100000
  /\ AsMap(ret.value) = MediumBundle

\* C5: calculate_annual_cost of a catalog item with a negative quantity
\* fails with InvalidQuantity and returns no cost breakdown.
C5_NegativeQuantityRejected ==
  ( /\ pc = "returned"
    /\ call.op = "calculate_annual_cost"
    /\ call.equipment_type \in CatalogKeys
    /\ call.quantity < 0 )
  => ret.status = "InvalidQuantity"

HasUnknownKey(d) ==
  \E i \in 1..Len(d) :
    d[i][1] \notin DOMAIN control_equipment \cup DOMAIN rescue_equipment

\* C6: on an assignment with a key of neither catalog group,
\* generate_cost_breakdown and calculate_efficiency_score each fail with
\* the unknown-key error and return nothing, whatever the quantity of that
\* key and whatever the other entries.
C6_UnknownKeyFails ==
  ( /\ pc = "returned"
    /\ call.op \in { "generate_cost_breakdown", "calculate_efficiency_score" }
    /\ HasUnknownKey(call.equipment_config) )
  => ret = [ status |-> "KeyError" ]

C6_Witness ==
  /\ pc = "returned"
  /\ call.op = "generate_cost_breakdown"
  /\ Len(call.equipment_config) = 2
  /\ call.equipment_config[1][1] \in CatalogKeys
  /\ call.equipment_config[1][2] > 0
  /\ call.equipment_config[2] = <<"unknown_item", 0>>
  /\ ret.status = "KeyError"

\* C7: for a catalog item, the total of calculate_annual_cost is the sum
\* of the four components it returns, and for quantities q1, q2 >= 0 the
\* total at q1 + q2 is the total at q1 plus the total at q2.
C7_TotalLinear ==
  ( /\ pc = "returned"
    /\ call.op = "calculate_annual_cost"
    /\ call.equipment_type \in CatalogKeys )
  => /\ ret.status = "ok"
     /\ ret.total =
          ret.acquisition + ret.maintenance + ret.readiness + ret.usage
     /\ \A q1, q2 \in 0..(2 * MaxQty) :
          q1 + q2 = call.quantity =>
            ret.total =
              calculate_annual_cost(
                call.equipment_type, q1,
                ArgOr(call.usage_hours, DefaultUsageHours)).total
              + calculate_annual_cost(
                  call.equipment_type, q2,
                  ArgOr(call.usage_hours, DefaultUsageHours)).total

C7_Witness ==
  /\ pc = "returned"
  /\ call.op = "calculate_annual_cost"
  /\ call.equipment_type = "satellite_comm"
  /\ call.quantity = 3
  /\ call.usage_hours = None
  /\ ret.status = "ok"
  /\ ret.total = 3 * 28250

\* C8: on an assignment of catalog items, generate_cost_breakdown returns
\* total_annual_cost equal to the sum of calculate_annual_cost(item,
\* quantity).total over exactly the items with quantity > 0, and
\* total_5year_cost equal to years times total_annual_cost, years being 5
\* when it is not given.
C8_BreakdownTotals ==
  ( /\ pc = "returned"
    /\ call.op = "generate_cost_breakdown"
    /\ ~HasUnknownKey(call.equipment_config) )
  => /\ ret.status = "ok"
     /\ ret.total_annual_cost =
          TotalOver(
            { k \in Keys(call.equipment_config) :
                Lookup(call.equipment_config, k) > 0 },
            call.equipment_config)
     /\ ret.total_5year_cost =
          (IF call.years.given THEN call.years.value ELSE 5)
            * ret.total_annual_cost

C8_Witness ==
  /\ pc = "returned"
  /\ call.op = "generate_cost_breakdown"
  /\ call.years = Given(3)
  /\ call.equipment_config = << <<"gps_tracker", 2>>, <<"backup_drone", 0>> >>
  /\ ret.status = "ok"
  /\ ret.total_annual_cost = 13000
  /\ ret.total_5year_cost = 39000

\* C9: on the solver-success path every entry of the assignment
\* optimize_equipment_selection returns has a quantity above 0, whatever
\* vector the solver returns.
C9_PositiveEntries ==
  Optimized /\ ret.success =>
    \A i \in 1..Len(ret.value) : ret.value[i][2] > 0

\* C10: in 'cost' mode, on every feasible budget,
\* optimize_equipment_selection returns each catalog item at exactly its
\* quantity_min, the items whose quantity_min is 0 being omitted.
C10_CostModeMinimum ==
  ( /\ Optimized
    /\ call.priority = "cost"
    /\ call.budget_constraint >= MinFeasibleBudget )
  => /\ IsDict(ret.value)
     /\ AsMap(ret.value) =
          [ k \in { e \in CatalogKeys : all_equipment[e].quantity_min > 0 } |->
              all_equipment[k].quantity_min ]

\* C10 with an entry of quantity 0 read as the item's absence
C10_CostModeMinimumQuantities ==
  ( /\ Optimized
    /\ call.priority = "cost"
    /\ call.budget_constraint >= MinFeasibleBudget )
  => /\ ret.success
     /\ \A k \in CatalogKeys :
          Quantity(ret.value, k) = all_equipment[k].quantity_min

====
